---- MODULE Spec2Model ----
(***************************************************************************)
(* Model of the meteor Agent runtime: Agent.Run wires one extractor, the   *)
(* processors and the sinks of a recipe to a stream, runs the extractor in *)
(* its own goroutine and drives the stream with broadcast().               *)
(* The Agent is translated from agent.go; the stream and the retrier are   *)
(* modelled from the design document (their sources are not in the tree).  *)
(***************************************************************************)
EXTENDS Integers, Sequences, FiniteSets, TLC

\* ---------------------------------------------------------------- bounds
MaxProcs == 2          \* processors in a recipe: 0..MaxProcs
MaxSinks == 2          \* sinks in a recipe: 1..MaxSinks
MaxRecords == 2        \* records an extractor emits: 0..MaxRecords
MaxRetriesCfg == 2     \* Config.MaxRetries of the agent under test
MaxRecipes == 2        \* recipes handed to RunMultiple
MaxBatch == 3          \* batch size of a subscriber: 1..MaxBatch
MaxBatchRecords == 4   \* records emitted when batching is looked at
MaxAttempts == 4       \* Config.MaxRetries when the back-off is looked at

\* ------------------------------------------------------- program constants
defaultBatchSize == 1
expectedDuration == 1000  \* what the injected timer of the tests returns
ChanCap == 1           \* capacity of the stream's push channel
SubCap == 1            \* capacity of a subscriber's delivery channel

\* --------------------------------------------------------------- values
\* An error is the sequence of its message parts, outermost wrap first;
\* nil is the empty sequence.
NoErr == <<>>
PluginStatus == {"ok", "missing", "badinit"}
\* A registered processor either hands every record back unchanged or rewrites it.
ProcessorStatus == PluginStatus \cup {"rewrite"}
PanicPayload == "panicking"
ErrNotFound == <<"could not find plugin">>
ErrInit == <<"invalid config">>
ErrExtract == <<"some error">>
ErrProcess == <<"some error">>
ErrSink == <<"some error">>

\* errors.Wrap / errors.Wrapf: prefix the message, keep the cause.
Wrap(err, msg) == <<msg>> \o err
\* fmt.Errorf("%s", r) on a recovered panic value.
Errorf(payload) == <<payload>>
\* plugins.NewRetryError(err) and the unwrapping of it.
NewRetryError(err) == <<"RetryError">> \o err
IsRetryError(err) == err # <<>> /\ Head(err) = "RetryError"
Unwrap_Keeps(err) == err
Unwrap(err) == IF IsRetryError(err) THEN Tail(err) ELSE err
Contains(err, part) == \E i \in 1..Len(err) : err[i] = part

SeqsUpTo(S, lo, hi) == UNION {[1..n -> S] : n \in lo..hi}

VARIABLES
  recipe,        \* [source, processors, sinks]: status of each named plugin
  stopOnSinkError, maxRetries, batchSize,
  pc,            \* position of the goroutine that called Run
  idx,           \* loop index of the setup loops / middleware chain / fan-out / hooks
  run,           \* the named result of Run
  recordCount,   \* local of Run captured by the counting middleware
  retRun,        \* the Run value handed back to the caller (once pc = "done")
  monitorLog,    \* Run values handed to monitor.RecordRun
  initLog,       \* plugins whose Init was called, in call order
  extractCalled,
  epc,           \* position of the extractor goroutine
  emitted,       \* records handed to emit by the extractor
  middlewares, onCloses, nSubs,
  pushChan, closed, sErr, subsClosed,
  cur,           \* record in the dispatcher's hand
  passed,        \* records that came out of the whole middleware chain
  failedAt,      \* record on which a middleware failed (0: none)
  inbox, batch, spc, delivered,
  handled,       \* per subscriber, its handler calls: batch length, returned or not
  closeLog,      \* sinks whose Close was called, in call order
  faults,        \* kinds of fault injected so far
  rt,            \* one retrier.retry call, step by step
  vl,            \* one Agent.Validate call, step by step
  rm             \* one Agent.RunMultiple call, step by step

vars == <<recipe, stopOnSinkError, maxRetries, batchSize, pc, idx, run,
          recordCount, retRun, monitorLog, initLog, extractCalled, epc,
          emitted, middlewares, onCloses, nSubs, pushChan, closed, sErr,
          subsClosed, cur, passed, failedAt, inbox, batch, spc,
          delivered, handled, closeLog, faults, rt, vl, rm>>

\* The Agent's configuration and the recipe.
agentVars == <<recipe, stopOnSinkError, maxRetries, batchSize>>
\* The state of one Run.
runVars == <<pc, idx, run, recordCount, retRun, monitorLog, initLog,
             extractCalled, epc, emitted, middlewares, onCloses, nSubs,
             pushChan, closed, sErr, subsClosed, cur, passed, failedAt,
             inbox, batch, spc, delivered, handled, closeLog, faults>>
\* What no step of Run changes: the configuration, and the calls of the
\* retrier, of Validate and of RunMultiple that are looked at on their own.
cfgVars == <<agentVars, rt, vl, rm>>
extVars == <<extractCalled, epc, emitted>>
subVars == <<inbox, batch, spc, delivered, handled>>
regVars == <<middlewares, onCloses, nSubs>>

Sinks == 1..MaxSinks

\* ------------------------------------------------------------------ Init
newStream ==
  /\ middlewares = <<>>
  /\ onCloses = <<>>
  /\ nSubs = 0
  /\ pushChan = <<>>
  /\ closed = FALSE
  /\ sErr = NoErr
  /\ subsClosed = FALSE
  /\ inbox = [k \in Sinks |-> <<>>]
  /\ batch = [k \in Sinks |-> <<>>]
  /\ spc = [k \in Sinks |-> "idle"]
  /\ delivered = [k \in Sinks |-> <<>>]
  /\ handled = [k \in Sinks |-> <<>>]

NewAgent ==
  /\ stopOnSinkError \in BOOLEAN
  /\ maxRetries = MaxRetriesCfg
  /\ batchSize = defaultBatchSize

\* No retrier call, no Validate call, no RunMultiple call under way.
NotCalled == [pc |-> "idle"]

\* Run(recipe) is entered: the locals of Run and a new stream.
RunEntered ==
  /\ newStream
  /\ pc = "setupExtractor"
  /\ idx = 0
  /\ run = [Error |-> NoErr, Success |-> FALSE, RecordCount |-> 0, DurationInMs |-> 0]
  /\ recordCount = 0
  /\ retRun = [Error |-> NoErr, Success |-> FALSE, RecordCount |-> 0, DurationInMs |-> 0]
  /\ monitorLog = <<>>
  /\ initLog = <<>>
  /\ extractCalled = FALSE
  /\ epc = "idle"
  /\ emitted = <<>>
  /\ cur = 0
  /\ passed = <<>>
  /\ failedAt = 0
  /\ closeLog = <<>>
  /\ faults = {}

Init ==
  /\ recipe \in [source : PluginStatus,
                 processors : SeqsUpTo(ProcessorStatus, 0, MaxProcs),
                 sinks : SeqsUpTo(PluginStatus, 1, MaxSinks)]
  /\ NewAgent
  /\ RunEntered
  /\ rt = NotCalled
  /\ vl = NotCalled
  /\ rm = NotCalled

\* ------------------------------------------------------ Agent.Run: setup
nProcs == Len(recipe.processors)
nSinks == Len(recipe.sinks)

\* Fault variant: the error of factory.Get is not looked at.
GetFails_Ignored(status) == FALSE
\* factory.Get(name) returned an error (the name is not registered).
GetFails(status) == status = "missing"
\* Fault variant: the error of Init is not looked at.
InitFails_Ignored(status) == FALSE
\* plugin.Init(ctx, config) returned an error.
InitFails(status) == status = "badinit"

\* Fault variant: metrics recorded at the end of Run instead of in a deferred
\* block, so that an early return skips them.
Fail_SkipsDeferred(err, msg) ==
  /\ run' = [run EXCEPT !.Error = Wrap(err, msg)]
  /\ pc' = "done"
\* An early return of Run: the error is set, the deferred block runs next.
Fail(err, msg) ==
  /\ run' = [run EXCEPT !.Error = Wrap(err, msg)]
  /\ pc' = "deferred"

setupExtractor ==
  /\ pc = "setupExtractor"
  /\ IF GetFails(recipe.source)
       THEN /\ Fail(Wrap(ErrNotFound, "could not find extractor"), "failed to setup extractor")
            /\ UNCHANGED <<initLog, idx>>
       ELSE /\ initLog' = Append(initLog, <<"extractor", 1>>)
            /\ IF InitFails(recipe.source)
                 THEN /\ Fail(Wrap(ErrInit, "could not initiate extractor"), "failed to setup extractor")
                      /\ UNCHANGED idx
                 ELSE /\ pc' = IF nProcs >= 1 THEN "setupProcessor" ELSE "setupSink"
                      /\ idx' = 1
                      /\ UNCHANGED run
  /\ UNCHANGED <<cfgVars, recordCount, retRun, monitorLog, extVars, regVars,
                 pushChan, closed, sErr, subsClosed, cur, passed, failedAt,
                 subVars, closeLog, faults>>

setupProcessor ==
  /\ pc = "setupProcessor"
  /\ idx <= nProcs
  /\ IF GetFails(recipe.processors[idx])
       THEN /\ Fail(Wrap(ErrNotFound, "could not find processor"), "failed to setup processor")
            /\ UNCHANGED <<initLog, idx, middlewares>>
       ELSE /\ initLog' = Append(initLog, <<"processor", idx>>)
            /\ IF InitFails(recipe.processors[idx])
                 THEN /\ Fail(Wrap(ErrInit, "could not initiate processor"), "failed to setup processor")
                      /\ UNCHANGED <<idx, middlewares>>
                 ELSE /\ middlewares' = Append(middlewares, <<"processor", idx>>)
                      /\ pc' = IF idx < nProcs THEN "setupProcessor" ELSE "setupSink"
                      /\ idx' = IF idx < nProcs THEN idx + 1 ELSE 1
                      /\ UNCHANGED run
  /\ UNCHANGED <<cfgVars, recordCount, retRun, monitorLog, extVars, onCloses,
                 nSubs, pushChan, closed, sErr, subsClosed, cur, passed,
                 failedAt, subVars, closeLog, faults>>

setupSink ==
  /\ pc = "setupSink"
  /\ idx <= nSinks
  /\ IF GetFails(recipe.sinks[idx])
       THEN /\ Fail(Wrap(ErrNotFound, "could not find sink"), "failed to setup sink")
            /\ UNCHANGED <<initLog, idx, nSubs, onCloses>>
       ELSE /\ initLog' = Append(initLog, <<"sink", idx>>)
            /\ IF InitFails(recipe.sinks[idx])
                 THEN /\ Fail(Wrap(ErrInit, "could not initiate sink"), "failed to setup sink")
                      /\ UNCHANGED <<idx, nSubs, onCloses>>
                 ELSE /\ nSubs' = nSubs + 1
                      /\ onCloses' = Append(onCloses, idx)
                      /\ pc' = IF idx < nSinks THEN "setupSink" ELSE "setCounter"
                      /\ idx' = IF idx < nSinks THEN idx + 1 ELSE 0
                      /\ UNCHANGED run
  /\ UNCHANGED <<cfgVars, recordCount, retRun, monitorLog, extVars, middlewares,
                 pushChan, closed, sErr, subsClosed, cur, passed, failedAt,
                 subVars, closeLog, faults>>

\* Fault variant: the counting middleware is put in front of the chain.
InstallCounter_First(mws) == <<<<"count", 0>>>> \o mws
\* Where Run installs the counting middleware: setMiddleware appends it, and
\* Run calls it after the loops that set up the processors and the sinks.
InstallCounter(mws) == Append(mws, <<"count", 0>>)

\* stream.setMiddleware(func ... recordCount++ ...), installed after the processors.
setCounter ==
  /\ pc = "setCounter"
  /\ middlewares' = InstallCounter(middlewares)
  /\ pc' = "spawn"
  /\ UNCHANGED <<cfgVars, idx, run, recordCount, retRun, monitorLog, initLog,
                 extVars, onCloses, nSubs, pushChan, closed, sErr, subsClosed,
                 cur, passed, failedAt, subVars, closeLog, faults>>

\* go func() { ... runExtractor() ... }(), then stream.broadcast() starts.
spawn ==
  /\ pc = "spawn"
  /\ epc' = "spawned"
  /\ pc' = "broadcast"
  /\ UNCHANGED <<cfgVars, idx, run, recordCount, retRun, monitorLog, initLog,
                 extractCalled, emitted, regVars, pushChan, closed, sErr,
                 subsClosed, cur, passed, failedAt, subVars, closeLog, faults>>

\* --------------------------------------------------------------- stream
\* stream.close(): idempotent.
close == closed' = TRUE

\* Fault variant: a later fatal error replaces the one recorded first.
closeWithError_LastWins(err) ==
  /\ closed' = TRUE
  /\ sErr' = err
\* A fatal error: the first terminal error is kept, the stream is closed.
closeWithError(err) ==
  /\ closed' = TRUE
  /\ sErr' = IF sErr = NoErr THEN err ELSE sErr

\* Fault variant: the push channel buffers without bound.
push_Unbounded(r) ==
  IF closed
    THEN UNCHANGED pushChan
    ELSE pushChan' = Append(pushChan, r)
\* stream.push(record): blocks while the push channel is full; a push on a
\* closed stream returns without handing the record over.
push(r) ==
  IF closed
    THEN UNCHANGED pushChan
    ELSE /\ Len(pushChan) < ChanCap
         /\ pushChan' = Append(pushChan, r)

\* ------------------------------------------------- extractor goroutine
extractStart ==
  /\ epc = "spawned"
  /\ epc' = "running"
  /\ extractCalled' = TRUE
  /\ UNCHANGED <<cfgVars, pc, idx, run, recordCount, retRun, monitorLog,
                 initLog, emitted, regVars, pushChan, closed, sErr, subsClosed,
                 cur, passed, failedAt, subVars, closeLog, faults>>

\* extractor.Extract(ctx, str.push) calls emit with the next record.
emit ==
  /\ epc = "running"
  /\ Len(emitted) < MaxRecords
  /\ push(Len(emitted) + 1)
  /\ emitted' = Append(emitted, Len(emitted) + 1)
  /\ UNCHANGED <<cfgVars, pc, idx, run, recordCount, retRun, monitorLog,
                 initLog, extractCalled, epc, regVars, closed, sErr,
                 subsClosed, cur, passed, failedAt, subVars, closeLog, faults>>

\* Fault variant: no recover() in the extractor goroutine's deferred block.
ExtractorError_NoRecover(outcome, old) ==
  IF outcome = "err"
    THEN Wrap(Wrap(ErrExtract, "error running extractor"), "failed to run extractor")
    ELSE old
\* Fault variant: the error runExtractor returns is dropped.
ExtractorError_DropsErr(outcome, old) ==
  IF outcome = "panic" THEN Errorf(PanicPayload) ELSE old
\* What the extractor goroutine writes to run.Error when Extract is over:
\* line 169 on an error, line 163 (recover) on a panic.
ExtractorError(outcome, old) ==
  CASE outcome = "err" ->
         Wrap(Wrap(ErrExtract, "error running extractor"), "failed to run extractor")
    [] outcome = "panic" -> Errorf(PanicPayload)
    [] OTHER -> old

extractReturn ==
  /\ epc = "running"
  /\ \E outcome \in {"ok", "err", "panic"} :
       /\ run' = [run EXCEPT !.Error = ExtractorError(outcome, run.Error)]
       /\ faults' = IF outcome = "ok" THEN faults
                    ELSE faults \cup {"extract_" \o outcome}
  /\ epc' = "closing"
  /\ UNCHANGED <<cfgVars, pc, idx, recordCount, retRun, monitorLog, initLog,
                 extractCalled, emitted, regVars, pushChan, closed, sErr,
                 subsClosed, cur, passed, failedAt, subVars, closeLog>>

\* Fault variant: the extractor goroutine ends without closing the stream.
StreamClose_Missing == UNCHANGED closed
\* stream.Close() in the deferred block of the extractor goroutine.
StreamClose == close

\* The deferred stream.Close() of the extractor goroutine.
extractorClose ==
  /\ epc = "closing"
  /\ StreamClose
  /\ epc' = "exited"
  /\ UNCHANGED <<cfgVars, pc, idx, run, recordCount, retRun, monitorLog,
                 initLog, extractCalled, emitted, regVars, pushChan, sErr,
                 subsClosed, cur, passed, failedAt, subVars, closeLog, faults>>

\* ------------------------------------------------- stream.broadcast()
broadcastStart ==
  /\ pc = "broadcast"
  /\ spc' = [k \in Sinks |-> IF k <= nSubs THEN "recv" ELSE "idle"]
  /\ pc' = "recv"
  /\ UNCHANGED <<cfgVars, idx, run, recordCount, retRun, monitorLog, initLog,
                 extVars, regVars, pushChan, closed, sErr, subsClosed, cur,
                 passed, failedAt, inbox, batch, delivered, handled,
                 closeLog, faults>>

\* The middleware of setupProcessor: the error proc.Process returned, wrapped.
ProcessorError(outcome) ==
  CASE outcome = "err" -> Wrap(ErrProcess, "error running processor")
    [] outcome = "panic" -> Errorf(PanicPayload)
    [] OTHER -> NoErr

\* What proc.Process hands back for record r of processor p.
Process(kind, r, p) == IF kind = "rewrite" THEN 10 * r + p ELSE r

\* Fault variant: the middleware hands the record on and drops the error.
ProcessorMiddleware_SwallowsError(st, outcome, p) == st
\* Fault variant: the counting middleware hands back the zero Record.
CountMiddleware_DropsRecord(st) == [st EXCEPT !.count = @ + 1, !.rec = 0]
\* The counting middleware of Run: recordCount++, the record handed back as is.
CountMiddleware(st) == [st EXCEPT !.count = @ + 1]

\* Fault variant: the middleware calls proc.Process a second time on what
\* the first call handed back.
ProcessorMiddleware_Twice(st, outcome, p) ==
  IF ProcessorError(outcome) # NoErr
    THEN [st EXCEPT !.err = ProcessorError(outcome)]
    ELSE [st EXCEPT !.rec = Process(recipe.processors[p],
                                    Process(recipe.processors[p], @, p), p)]
\* The middleware of setupProcessor for processor p, the processor doing
\* `outcome`: the wrapped error, or the record Process handed back.
ProcessorMiddleware(st, outcome, p) ==
  IF ProcessorError(outcome) # NoErr
    THEN [st EXCEPT !.err = ProcessorError(outcome)]
    ELSE [st EXCEPT !.rec = Process(recipe.processors[p], @, p)]

\* The middleware chain from position i on, in insertion order, each
\* middleware on the output of the one before; outs[p] is what processor p
\* does. The first error ends the chain.
\* st = [rec: the record, err: the error, count: increments of recordCount].
RECURSIVE runMiddlewares(_, _, _, _)
runMiddlewares(mws, outs, i, st) ==
  IF i > Len(mws) THEN st
  ELSE LET out == IF mws[i][1] = "count"
                    THEN CountMiddleware(st)
                    ELSE ProcessorMiddleware(st, outs[mws[i][2]], mws[i][2])
       IN IF out.err # NoErr THEN out
          ELSE runMiddlewares(mws, outs, i + 1, out)

\* The drive loop takes the next record from the push channel and applies the
\* middleware chain; a middleware error (or panic) is the terminal error.
dispatch ==
  /\ pc = "recv"
  /\ sErr = NoErr
  /\ pushChan # <<>>
  /\ pushChan' = Tail(pushChan)
  /\ \E j \in 0..nProcs, kind \in {"err", "panic"} :
       /\ j = 0 => kind = "err"
       /\ LET outs == [p \in 1..nProcs |-> IF p = j THEN kind ELSE "ok"]
              st == runMiddlewares(middlewares, outs, 1,
                      [rec |-> Head(pushChan), err |-> NoErr, count |-> 0])
          IN /\ recordCount' = recordCount + st.count
             /\ failedAt' = IF j # 0 THEN Len(passed) + 1 ELSE failedAt
             /\ faults' = IF j # 0 THEN faults \cup {"process_" \o kind} ELSE faults
             /\ IF st.err # NoErr
                  THEN /\ closeWithError(st.err)
                       /\ UNCHANGED <<pc, idx, cur, passed>>
                  ELSE /\ cur' = st.rec
                       /\ passed' = Append(passed, st.rec)
                       /\ pc' = "fanout"
                       /\ idx' = 1
                       /\ UNCHANGED <<closed, sErr>>
  /\ UNCHANGED <<cfgVars, run, retRun, monitorLog, initLog, extVars, regVars,
                 subsClosed, subVars, closeLog>>

\* Fan-out of the record in hand to subscriber idx; nothing is delivered
\* once a terminal error is recorded.
dispatchFanout ==
  /\ pc = "fanout"
  /\ IF sErr # NoErr
       THEN /\ pc' = "recv"
            /\ UNCHANGED <<idx, inbox>>
       ELSE /\ Len(inbox[idx]) < SubCap
            /\ inbox' = [inbox EXCEPT ![idx] = Append(@, cur)]
            /\ pc' = IF idx < nSubs THEN "fanout" ELSE "recv"
            /\ idx' = IF idx < nSubs THEN idx + 1 ELSE idx
  /\ UNCHANGED <<cfgVars, run, recordCount, retRun, monitorLog, initLog,
                 extVars, regVars, pushChan, closed, sErr, subsClosed, cur,
                 passed, failedAt, batch, spc, delivered, handled, closeLog,
                 faults>>

\* The stream is closed and drained (or aborted): the subscribers' channels
\* are closed so that they flush and end.
dispatchClose ==
  /\ pc = "recv"
  /\ closed
  /\ sErr # NoErr \/ pushChan = <<>>
  /\ subsClosed' = TRUE
  /\ pc' = "wait"
  /\ UNCHANGED <<cfgVars, idx, run, recordCount, retRun, monitorLog, initLog,
                 extVars, regVars, pushChan, closed, sErr, cur, passed,
                 failedAt, subVars, closeLog, faults>>

\* Fault variant: the hooks are started without waiting for the subscribers.
dispatchWait_NoWait ==
  /\ pc = "wait"
  /\ pc' = "hooks"
  /\ idx' = 1
  /\ UNCHANGED <<cfgVars, run, recordCount, retRun, monitorLog, initLog,
                 extVars, regVars, pushChan, closed, sErr, subsClosed, cur,
                 passed, failedAt, subVars, closeLog, faults>>

\* broadcast() waits until every subscriber has ended, then runs the hooks.
dispatchWait ==
  /\ pc = "wait"
  /\ \A k \in 1..nSubs : spc[k] = "done"
  /\ pc' = "hooks"
  /\ idx' = 1
  /\ UNCHANGED <<cfgVars, run, recordCount, retRun, monitorLog, initLog,
                 extVars, regVars, pushChan, closed, sErr, subsClosed, cur,
                 passed, failedAt, subVars, closeLog, faults>>

ErrClose == <<"some error">>
\* Fault variant: the hook makes a failed sink.Close the stream's error.
CloseError_Fatal(outcome, old) ==
  IF outcome = "err" /\ old = NoErr THEN ErrClose ELSE old
\* The stream's terminal error after the hook of setupSink ran sink.Close()
\* (lines 263-267): an error of Close is logged and goes nowhere.
CloseError(outcome, old) == old

\* The on_close hook of setupSink: sink.Close(), its error only logged.
runOnClose ==
  /\ pc = "hooks"
  /\ idx <= Len(onCloses)
  /\ \E outcome \in {"ok", "err"} :
       /\ faults' = IF outcome = "err" THEN faults \cup {"close_err"}
                    ELSE faults
       /\ sErr' = CloseError(outcome, sErr)
  /\ closeLog' = Append(closeLog, onCloses[idx])
  /\ idx' = idx + 1
  /\ UNCHANGED <<cfgVars, pc, run, recordCount, retRun, monitorLog, initLog,
                 extVars, regVars, pushChan, closed, subsClosed, cur,
                 passed, failedAt, subVars>>

\* Fault variant: the error of stream.broadcast() is not looked at.
BroadcastError_Ignored(err, old) == old
\* run.Error after stream.broadcast() returned err (lines 175-177).
BroadcastError(err, old) ==
  IF err # NoErr THEN Wrap(err, "failed to broadcast stream") ELSE old

broadcastReturn ==
  /\ pc = "hooks"
  /\ idx > Len(onCloses)
  /\ run' = [run EXCEPT !.Error = BroadcastError(sErr, run.Error)]
  /\ pc' = "finish"
  /\ UNCHANGED <<cfgVars, idx, recordCount, retRun, monitorLog, initLog,
                 extVars, regVars, pushChan, closed, sErr, subsClosed, cur,
                 passed, failedAt, subVars, closeLog, faults>>

\* ------------------------------------------------ subscriber goroutines
\* The handler is called with the batch: its first Sink attempt comes next.
StartHandler(k, b) ==
  /\ spc' = [spc EXCEPT ![k] = "handler"]
  /\ delivered' = [delivered EXCEPT ![k] = @ \o b]
  /\ handled' = [handled EXCEPT ![k] = Append(@, [n |-> Len(b), ret |-> FALSE])]

\* Fault variant: every record is handed to the handler on its own.
BatchFull_Always(b, size) == TRUE
\* The subscriber's buffer holds a whole batch.
BatchFull(b, size) == Len(b) >= size

subRecv(k) ==
  /\ spc[k] = "recv"
  /\ inbox[k] # <<>>
  /\ inbox' = [inbox EXCEPT ![k] = Tail(@)]
  /\ LET b == Append(batch[k], Head(inbox[k]))
     IN /\ batch' = [batch EXCEPT ![k] = b]
        /\ IF BatchFull(b, batchSize)
             THEN StartHandler(k, b)
             ELSE UNCHANGED <<spc, delivered, handled>>
  /\ UNCHANGED <<cfgVars, pc, idx, run, recordCount, retRun, monitorLog,
                 initLog, extVars, regVars, pushChan, closed, sErr, subsClosed,
                 cur, passed, failedAt, closeLog, faults>>

\* The channel is closed and empty: flush what is left, or end.
subFlush(k) ==
  /\ spc[k] = "recv"
  /\ inbox[k] = <<>>
  /\ subsClosed
  /\ IF batch[k] # <<>>
       THEN StartHandler(k, batch[k])
       ELSE /\ spc' = [spc EXCEPT ![k] = "done"]
            /\ UNCHANGED <<delivered, handled>>
  /\ UNCHANGED <<cfgVars, pc, idx, run, recordCount, retRun, monitorLog,
                 initLog, extVars, regVars, pushChan, closed, sErr, subsClosed,
                 cur, passed, failedAt, inbox, batch, closeLog, faults>>

\* The error sink.Sink returns.
\* Fault variants: the closure hands the cause on without its RetryError
\* mark / marks every error as retryable.
SinkError_Unwrapped(outcome) ==
  IF outcome \in {"retry", "perm"} THEN ErrSink ELSE NoErr
SinkError_AllRetryable(outcome) ==
  IF outcome \in {"retry", "perm"} THEN NewRetryError(ErrSink) ELSE NoErr
SinkError(outcome) ==
  CASE outcome = "retry" -> NewRetryError(ErrSink)
    [] outcome = "perm" -> ErrSink
    [] outcome = "panic" -> Errorf(PanicPayload)
    [] OTHER -> NoErr

\* What a sink does on the successive Sink calls for one batch: RetryError on
\* the first f calls, then always `final`.
SinkBehaviours(max) ==
  {[i \in 1..max |-> IF i <= f THEN "retry" ELSE final] :
     f \in 0..(max - 1), final \in {"nil", "retry", "perm"}}
\* The same for a sink whose Sink may also panic.
PanickySinkBehaviours(max) ==
  {[i \in 1..max |-> IF i <= f THEN "retry" ELSE final] :
     f \in 0..(max - 1), final \in {"nil", "retry", "perm", "panic"}}
\* The same for a sink whose every write fails: Sink returns RetryErrors to
\* the last attempt, or a permanent error on some attempt.
FailingSinkBehaviours(max) ==
  {[i \in 1..max |-> IF i <= f THEN "retry" ELSE final] :
     f \in 0..(max - 1), final \in {"retry", "perm"}}

\* What the sink does on its i-th call for the batch; past the end of outs it
\* goes on as on the last one.
Outcome(outs, i) == IF i <= Len(outs) THEN outs[i] ELSE outs[Len(outs)]

\* Fault variant: MaxRetries taken as retries after the first attempt.
RetrierMax_Extra(cfgMax) == cfgMax + 1
\* The retrier's max_retries as NewAgent configures it:
\* newRetrier(config.MaxRetries, config.RetryInitialInterval).
RetrierMax(cfgMax) == cfgMax

\* retrier.retry(op, notify), op's successive results being outs[n], outs[n+1],
\* ...: a nil or a non-retryable error ends it, a RetryError is tried again
\* until max attempts were made, and then its cause is returned.
RECURSIVE retry(_, _, _)
retry(outs, n, max) ==
  LET err == SinkError(Outcome(outs, n))
  IN IF IsRetryError(err) /\ n < max
       THEN retry(outs, n + 1, max)
       ELSE [err |-> Unwrap(err), calls |-> n]

\* Fault variants: the handler hands every error on / hands no error on.
SinkHandlerResult_NeverSwallows(err, stop) == err
SinkHandlerResult_AlwaysSwallows(err, stop) == NoErr
\* The batch handler of setupSink after the retrier returned err
\* (lines 250-260): the error is dropped unless stopOnSinkError is set.
SinkHandlerResult(err, stop) == IF err # NoErr /\ ~stop THEN NoErr ELSE err

\* Fault variant: a panic of Sink is not recovered and ends the process.
PanicEscapes_NoRecover(err) == err = Errorf(PanicPayload)
\* The retrier recovers a panic of the operation and returns it as an
\* error, so the panic goes no further.
PanicEscapes(err) == FALSE

\* Fault variant: the handler returns while retry is still running.
HandlerDone_Detached(h) == h
\* The handler returns only after r.retrier.retry(...) has returned: its
\* call, the last in h, is over.
HandlerDone(h) == [h EXCEPT ![Len(h)].ret = TRUE]

\* The batch handler of setupSink on the current batch, retries included;
\* a non-nil result is fatal to the stream.
sinkHandler(k) ==
  /\ spc[k] = "handler"
  /\ \E err \in {retry(outs, 1, RetrierMax(maxRetries)).err :
                     outs \in CASE recipe.sinks[onCloses[k]] = "panics" ->
                                    PanickySinkBehaviours(maxRetries)
                                 [] recipe.sinks[onCloses[k]] = "fails" ->
                                    FailingSinkBehaviours(maxRetries)
                                 [] OTHER -> SinkBehaviours(maxRetries)} :
       LET res == SinkHandlerResult(err, stopOnSinkError)
       IN /\ faults' = IF err = Errorf(PanicPayload) THEN faults \cup {"sink_panic"}
                       ELSE IF err # NoErr THEN faults \cup {"sink_err"}
                       ELSE faults
          /\ IF res # NoErr
               THEN closeWithError(res)
               ELSE UNCHANGED <<closed, sErr>>
          /\ pc' = IF PanicEscapes(err) THEN "crashed" ELSE pc
  /\ batch' = [batch EXCEPT ![k] = <<>>]
  /\ handled' = [handled EXCEPT ![k] = HandlerDone(@)]
  /\ spc' = [spc EXCEPT ![k] = "recv"]
  /\ UNCHANGED <<cfgVars, idx, run, recordCount, retRun, monitorLog,
                 initLog, extVars, regVars, pushChan, subsClosed, cur, passed,
                 failedAt, inbox, delivered, closeLog>>

\* --------------------------------------------------- Agent.Run: the end
\* Fault variant: success set without looking at run.Error.
Success_Always(r) == TRUE
\* success := run.Error == nil (line 181).
Success(r) == r.Error = NoErr

finish ==
  /\ pc = "finish"
  /\ run' = [run EXCEPT !.RecordCount = recordCount, !.Success = Success(run)]
  /\ pc' = "deferred"
  /\ UNCHANGED <<cfgVars, idx, recordCount, retRun, monitorLog, initLog,
                 extVars, regVars, pushChan, closed, sErr, subsClosed, cur,
                 passed, failedAt, subVars, closeLog, faults>>

\* logAndRecordMetrics(run, durationInMs): run is passed by value, the
\* duration is set on the copy and the copy goes to the monitor.
logAndRecordMetrics(r, durationInMs) ==
  monitorLog' = Append(monitorLog, [r EXCEPT !.DurationInMs = durationInMs])

\* The deferred block of Run: getDuration(), then logAndRecordMetrics.
deferred ==
  /\ pc = "deferred"
  /\ logAndRecordMetrics(run, expectedDuration)
  /\ pc' = "return"
  /\ UNCHANGED <<cfgVars, idx, run, recordCount, retRun, initLog, extVars,
                 regVars, pushChan, closed, sErr, subsClosed, cur, passed,
                 failedAt, subVars, closeLog, faults>>

\* Run returns: the caller gets the named result as it is now.
return ==
  /\ pc = "return"
  /\ retRun' = run
  /\ pc' = "done"
  /\ UNCHANGED <<cfgVars, idx, run, recordCount, monitorLog, initLog, extVars,
                 regVars, pushChan, closed, sErr, subsClosed, cur, passed,
                 failedAt, subVars, closeLog, faults>>

Next ==
  \/ setupExtractor
  \/ setupProcessor
  \/ setupSink
  \/ setCounter
  \/ spawn
  \/ extractStart
  \/ emit
  \/ extractReturn
  \/ extractorClose
  \/ broadcastStart
  \/ dispatch
  \/ dispatchFanout
  \/ dispatchClose
  \/ dispatchWait
  \/ runOnClose
  \/ broadcastReturn
  \/ \E k \in Sinks : subRecv(k)
  \/ \E k \in Sinks : subFlush(k)
  \/ \E k \in Sinks : sinkHandler(k)
  \/ finish
  \/ deferred
  \/ return

Spec == Init /\ [][Next]_vars

\* The goroutines of a Run: the one that called Run (and drives the stream),
\* the extractor's, one per subscriber.
CallerNext ==
  \/ setupExtractor \/ setupProcessor \/ setupSink \/ setCounter \/ spawn
  \/ broadcastStart \/ dispatch \/ dispatchFanout \/ dispatchClose
  \/ dispatchWait \/ runOnClose \/ broadcastReturn
  \/ finish \/ deferred \/ return
ExtractorNext == extractStart \/ emit \/ extractReturn \/ extractorClose
SubscriberNext(k) == subRecv(k) \/ subFlush(k) \/ sinkHandler(k)

\* Every goroutine that can take a step eventually takes one: the scheduler
\* is fair and every plugin call (Init, Extract, Process, Sink, Close)
\* comes back.
Fairness ==
  /\ WF_vars(CallerNext)
  /\ WF_vars(ExtractorNext)
  /\ \A k \in Sinks : WF_vars(SubscriberNext(k))

FairSpec == Spec /\ Fairness

\* ------------------------------------------------ a Run with batching
\* stream.subscribe(fn, batch_size) with batch sizes other than the Agent's
\* defaultBatchSize: a Run of a recipe with one sink and no processor whose
\* subscriber has batch size 1..MaxBatch and whose extractor emits up to
\* MaxBatchRecords records.
InitBatch ==
  /\ recipe = [source |-> "ok", processors |-> <<>>, sinks |-> <<"ok">>]
  /\ stopOnSinkError \in BOOLEAN
  /\ maxRetries = MaxRetriesCfg
  /\ batchSize \in 1..MaxBatch
  /\ RunEntered
  /\ rt = NotCalled
  /\ vl = NotCalled
  /\ rm = NotCalled

\* emit, for an extractor with up to MaxBatchRecords records.
emitBatch ==
  /\ epc = "running"
  /\ Len(emitted) < MaxBatchRecords
  /\ push(Len(emitted) + 1)
  /\ emitted' = Append(emitted, Len(emitted) + 1)
  /\ UNCHANGED <<cfgVars, pc, idx, run, recordCount, retRun, monitorLog,
                 initLog, extractCalled, epc, regVars, closed, sErr,
                 subsClosed, cur, passed, failedAt, subVars, closeLog, faults>>

NextBatch ==
  \/ setupExtractor
  \/ setupSink
  \/ setCounter
  \/ spawn
  \/ extractStart
  \/ emitBatch
  \/ extractReturn
  \/ extractorClose
  \/ broadcastStart
  \/ dispatch
  \/ dispatchFanout
  \/ dispatchClose
  \/ dispatchWait
  \/ runOnClose
  \/ broadcastReturn
  \/ \E k \in Sinks : subRecv(k)
  \/ \E k \in Sinks : subFlush(k)
  \/ \E k \in Sinks : sinkHandler(k)
  \/ finish
  \/ deferred
  \/ return

SpecBatch == InitBatch /\ [][NextBatch]_vars

\* ------------------------------------- a Run with sinks that may panic
\* A Run of a recipe whose plugins are all set up fine and whose first
\* sink's Sink may panic.
InitSinkPanic ==
  /\ recipe \in [source : {"ok"},
                 processors : SeqsUpTo({"ok"}, 0, 1),
                 sinks : {[i \in 1..n |-> IF i = 1 THEN "panics" ELSE "ok"] :
                            n \in 1..MaxSinks}]
  /\ NewAgent
  /\ RunEntered
  /\ rt = NotCalled
  /\ vl = NotCalled
  /\ rm = NotCalled

SpecSinkPanic == InitSinkPanic /\ [][Next]_vars

\* ------------------------------- a Run with a sink whose writes all fail
\* A Run of a recipe whose plugins are all set up fine and whose first
\* sink fails every batch it is handed, retries included.
InitSinkFail ==
  /\ recipe \in [source : {"ok"},
                 processors : SeqsUpTo({"ok"}, 0, 1),
                 sinks : {[i \in 1..n |-> IF i = 1 THEN "fails" ELSE "ok"] :
                            n \in 1..MaxSinks}]
  /\ NewAgent
  /\ RunEntered
  /\ rt = NotCalled
  /\ vl = NotCalled
  /\ rm = NotCalled

SpecSinkFail == InitSinkFail /\ [][Next]_vars

\* ------------------------------------------- retrier.retry, step by step
\* One sink handler's calls of retrier.retry, one per batch. rt holds the
\* sink's behaviour on the successive calls (outs), the calls made (n), the
\* back-off interval in force, the intervals notify was called with, and
\* the error retry returned.
RetryIntervals == {1, 5}

\* Fault variant: the interval reached on one batch is where the next starts.
newRetryCall_KeepsInterval(initial, outs, nth) ==
  [pc |-> "call", outs |-> outs, n |-> 0, initial |-> initial,
   interval |-> IF nth > 1 THEN rt.interval ELSE initial,
   notified |-> <<>>, result |-> NoErr, nth |-> nth]
\* A call of retry starts from the configured policy: no attempt made, the
\* interval at initial_interval, nothing notified.
newRetryCall(initial, outs, nth) ==
  [pc |-> "call", outs |-> outs, n |-> 0, initial |-> initial,
   interval |-> initial, notified |-> <<>>, result |-> NoErr, nth |-> nth]

InitRetry ==
  /\ recipe = [source |-> "ok", processors |-> <<>>, sinks |-> <<"ok">>]
  /\ stopOnSinkError \in BOOLEAN
  /\ maxRetries \in 1..MaxRetriesCfg
  /\ batchSize = defaultBatchSize
  /\ RunEntered
  /\ \E initial \in RetryIntervals, outs \in [1..maxRetries -> {"nil", "retry", "perm", "panic"}] :
       rt = newRetryCall(initial, outs, 1)
  /\ vl = NotCalled
  /\ rm = NotCalled

\* One attempt: op is called; nil or a non-retryable error ends the call, a
\* RetryError ends it once max attempts were made and goes to the back-off
\* otherwise.
rtCall ==
  /\ rt.pc = "call"
  /\ LET n == rt.n + 1
         err == SinkError(Outcome(rt.outs, n))
     IN IF IsRetryError(err) /\ n < RetrierMax(maxRetries)
          THEN rt' = [rt EXCEPT !.n = n, !.pc = "notify"]
          ELSE rt' = [rt EXCEPT !.n = n, !.pc = "done", !.result = Unwrap(err)]
  /\ UNCHANGED <<agentVars, runVars, vl, rm>>

\* Back-off before the next attempt: notify is called with the interval,
\* and the interval doubles.
rtNotify ==
  /\ rt.pc = "notify"
  /\ rt' = [rt EXCEPT !.notified = Append(@, rt.interval),
                      !.interval = 2 * @,
                      !.pc = "call"]
  /\ UNCHANGED <<agentVars, runVars, vl, rm>>

\* The handler is called for the next batch: a new retry call.
rtNextBatch ==
  /\ rt.pc = "done"
  /\ rt.nth < MaxRecords
  /\ \E outs \in [1..maxRetries -> {"nil", "retry", "perm", "panic"}] :
       rt' = newRetryCall(rt.initial, outs, rt.nth + 1)
  /\ UNCHANGED <<agentVars, runVars, vl, rm>>

NextRetry ==
  \/ rtCall
  \/ rtNotify
  \/ rtNextBatch

SpecRetry == InitRetry /\ [][NextRetry]_vars

\* The same calls for an agent configured with up to MaxAttempts attempts,
\* so that one call backs off several times.
InitBackoff ==
  /\ recipe = [source |-> "ok", processors |-> <<>>, sinks |-> <<"ok">>]
  /\ stopOnSinkError \in BOOLEAN
  /\ maxRetries \in 1..MaxAttempts
  /\ batchSize = defaultBatchSize
  /\ RunEntered
  /\ \E initial \in RetryIntervals, outs \in [1..maxRetries -> {"nil", "retry", "perm", "panic"}] :
       rt = newRetryCall(initial, outs, 1)
  /\ vl = NotCalled
  /\ rm = NotCalled

SpecBackoff == InitBackoff /\ [][NextRetry]_vars

\* ================================================================ claims
IsPrefix(a, b) == Len(a) <= Len(b) /\ \A i \in 1..Len(a) : a[i] = b[i]

Returned == pc = "done"
\* broadcast() has returned to Run.
BroadcastDone == pc \in {"finish", "deferred", "return", "done"} /\ epc # "idle"

\* The plugins of the recipe in the order Run sets them up.
RecipePlugins ==
  <<[role |-> "extractor", idx |-> 1, status |-> recipe.source]>>
  \o [i \in 1..nProcs |-> [role |-> "processor", idx |-> i, status |-> recipe.processors[i]]]
  \o [i \in 1..nSinks |-> [role |-> "sink", idx |-> i, status |-> recipe.sinks[i]]]
ExpectedInitOrder ==
  <<<<"extractor", 1>>>> \o [i \in 1..nProcs |-> <<"processor", i>>]
                        \o [i \in 1..nSinks |-> <<"sink", i>>]
\* The status of the i-th plugin of RecipePlugins.
StatusAt(i) ==
  IF i = 1 THEN recipe.source
  ELSE IF i <= 1 + nProcs THEN recipe.processors[i - 1]
  ELSE recipe.sinks[i - 1 - nProcs]
AnyMissing == \E i \in 1..(1 + nProcs + nSinks) : StatusAt(i) = "missing"
FirstMissing ==
  CHOOSE i \in 1..(1 + nProcs + nSinks) :
    /\ StatusAt(i) = "missing"
    /\ \A j \in 1..(i - 1) : StatusAt(j) # "missing"

ExtractorFailed == "extract_err" \in faults \/ "extract_panic" \in faults
ProcessorFailed == "process_err" \in faults \/ "process_panic" \in faults
Panicked == "extract_panic" \in faults \/ "process_panic" \in faults
SinkFailed == "sink_err" \in faults \/ "sink_panic" \in faults
\* A sink error the handler handed to the stream.
SinkAborted == stopOnSinkError /\ SinkFailed
IdentityProcessors == \A i \in 1..nProcs : recipe.processors[i] = "ok"

\* C1: every call of Run invokes monitor.RecordRun exactly once, on every
\* path: never before the deferred block, and once when Run has returned.
C1_MonitorOnce ==
  /\ Len(monitorLog) <= 1
  /\ Returned => Len(monitorLog) = 1
  /\ Len(monitorLog) = 1 => pc \in {"return", "done"}
\* Run has returned on a setup failure, on an extractor panic and on a
\* processor failure alike.
C1_Witness ==
  /\ Returned
  /\ Len(monitorLog) = 1
  /\ "extract_panic" \in faults
  /\ ProcessorFailed
  /\ SinkFailed

\* C2: in the Run value Run returns, success is true iff error is nil.
C2_SuccessIffNoError == Returned => (retRun.Success <=> retRun.Error = NoErr)
C2_Witness ==
  /\ Returned
  /\ retRun.Success
  /\ retRun.Error = NoErr
  /\ SinkFailed
  /\ Len(emitted) = MaxRecords

\* C3: Init is called on the extractor, then on the processors in recipe
\* order, then on the sinks, all before Extract is called or a record is
\* emitted; after an Init that fails there is no later Init and no Extract,
\* and Run returns success = false.
C3_InitOrder ==
  /\ IsPrefix(initLog, ExpectedInitOrder)
  /\ (extractCalled \/ emitted # <<>>) => initLog = ExpectedInitOrder
  /\ \A i \in 1..Len(initLog) :
       StatusAt(i) = "badinit" =>
         /\ i = Len(initLog)
         /\ ~extractCalled
         /\ emitted = <<>>
         /\ Returned => ~retRun.Success /\ retRun.Error # NoErr
C3_Witness ==
  /\ Returned
  /\ Len(initLog) = 3
  /\ initLog[3] = <<"processor", 2>>
  /\ recipe.processors[2] = "badinit"
  /\ ~retRun.Success

\* C4: when the source type, a processor name or a sink name is not
\* registered, Run returns success = false with a non-nil error, Extract is
\* never called, no Sink call is made, record_count is 0, and the plugins
\* listed after the missing one are never Init-ed.
C4_PluginNotFound ==
  AnyMissing =>
    /\ Len(initLog) < FirstMissing
    /\ ~extractCalled
    /\ \A k \in Sinks : delivered[k] = <<>>
    /\ recordCount = 0
    /\ Returned => /\ ~retRun.Success
                   /\ retRun.Error # NoErr
                   /\ retRun.RecordCount = 0
C4_Witness ==
  /\ Returned
  /\ nSinks = 2
  /\ recipe.sinks[1] = "missing"
  /\ recipe.sinks[2] = "ok"
  /\ Len(initLog) = 1 + nProcs
  /\ nProcs >= 1
  /\ Contains(retRun.Error, "could not find sink")

\* C5: with processors that hand every record back unchanged and without
\* error, every sink receives the emitted records each once, in emission
\* order: what a sink has received is always a prefix of what was emitted,
\* and it is all of it once broadcast has returned without a terminal error.
C5_OrderPreserved ==
  (IdentityProcessors /\ ~ProcessorFailed) =>
    \A k \in 1..nSubs :
      /\ IsPrefix(delivered[k], emitted)
      /\ (BroadcastDone /\ sErr = NoErr) => delivered[k] = emitted
C5_Witness ==
  /\ Returned
  /\ IdentityProcessors
  /\ nProcs = MaxProcs
  /\ nSubs = MaxSinks
  /\ Len(emitted) = MaxRecords
  /\ \A k \in 1..nSubs : delivered[k] = emitted

\* C6: when a processor returns an error on the i-th emitted record, no sink
\* receives the i-th record or a later one, and Run returns success = false
\* with a non-nil error.
C6_ProcessorAbort ==
  "process_err" \in faults =>
    /\ \A k \in 1..nSubs : Len(delivered[k]) < failedAt /\ IsPrefix(delivered[k], passed)
    /\ Len(passed) < failedAt
    /\ Returned => ~retRun.Success /\ retRun.Error # NoErr
C6_Witness ==
  /\ Returned
  /\ "process_err" \in faults
  /\ failedAt = 2
  /\ Len(emitted) = MaxRecords
  /\ \A k \in 1..nSubs : Len(delivered[k]) = 1
  /\ Contains(retRun.Error, "error running processor")

\* C7: a panic of Extract or of Process does not escape Run: Run returns
\* with success = false and a non-nil error, the monitor is invoked once,
\* and the error carries the panic payload when the panic is the only
\* failure of the Run.
C7_PanicIsolated ==
  (Returned /\ Panicked) =>
    /\ ~retRun.Success
    /\ retRun.Error # NoErr
    /\ Len(monitorLog) = 1
    /\ ("extract_err" \notin faults /\ "process_err" \notin faults /\ ~SinkAborted)
         => Contains(retRun.Error, PanicPayload)
C7_Witness ==
  /\ Returned
  /\ "process_panic" \in faults
  /\ "extract_panic" \notin faults
  /\ Contains(retRun.Error, PanicPayload)
  /\ Contains(retRun.Error, "failed to broadcast stream")

\* C8: when Extract fails (error or panic) after emitting records, the
\* stream is closed, the records it emitted before are still processed and
\* every record that passed all processors is delivered to every sink
\* (unless a sink error under stop_on_sink_error aborted the stream), and
\* Run returns success = false.
C8_ExtractorFailure ==
  (Returned /\ ExtractorFailed) =>
    /\ ~retRun.Success
    /\ closed
    /\ ~SinkAborted => \A k \in 1..nSubs : delivered[k] = passed
    /\ (~SinkAborted /\ ~ProcessorFailed) => Len(passed) = Len(emitted)
C8_Witness ==
  /\ Returned
  /\ "extract_err" \in faults
  /\ ~ProcessorFailed
  /\ Len(emitted) = MaxRecords
  /\ nSubs = MaxSinks
  /\ \A k \in 1..nSubs : Len(delivered[k]) = MaxRecords
  /\ Contains(retRun.Error, "failed to run extractor")

\* C9: with stop_on_sink_error unset, a failing sink does not fail the Run:
\* when nothing else failed Run returns success = true with a nil error, and
\* every sink still receives all the records.
C9_SinkErrorSwallowed ==
  (Returned /\ ~stopOnSinkError /\ SinkFailed) =>
    /\ (~ExtractorFailed /\ ~ProcessorFailed) => retRun.Success /\ retRun.Error = NoErr
    /\ \A k \in 1..nSubs : delivered[k] = passed
    /\ ~ProcessorFailed => Len(passed) = Len(emitted)
C9_Witness ==
  /\ Returned
  /\ ~stopOnSinkError
  /\ SinkFailed
  /\ retRun.Success
  /\ nSubs = MaxSinks
  /\ Len(emitted) = MaxRecords
  /\ \A k \in 1..nSubs : Len(delivered[k]) = MaxRecords

\* C10: with stop_on_sink_error set, a non-nil error of the retrier for a
\* sink write makes Run return success = false with a non-nil error.
C10_StopOnSinkError ==
  (Returned /\ stopOnSinkError /\ SinkFailed) =>
    ~retRun.Success /\ retRun.Error # NoErr
C10_Witness ==
  /\ Returned
  /\ stopOnSinkError
  /\ SinkFailed
  /\ ~ExtractorFailed
  /\ ~ProcessorFailed
  /\ ~retRun.Success
  /\ Contains(retRun.Error, "failed to broadcast stream")

\* ------------------------------------------------------- Agent.Validate
\* One call of Validate(rcp). A plugin of the recipe is registered and its
\* config valid ("ok"), not registered ("missing"), or registered with a
\* config its Validate rejects ("invalid"). vl holds the position in
\* Validate and the errs collected so far.
ValidateStatus == {"ok", "missing", "invalid"}
ErrInvalidConfig == <<"invalid config">>
ValidateFails(status) == status = "invalid"

\* errors.Wrapf(err, "invalid config for %s (%s)", name, role).
ConfigError(err, name, role) ==
  [msg |-> "invalid config for", name |-> name, role |-> role, cause |-> err]

\* Fault variant: nothing is added once an error was found.
ValidatePlugin_FirstOnly(errs, status, name, role) ==
  IF errs # <<>> THEN errs
  ELSE IF GetFails(status)
    THEN Append(errs, ConfigError(ErrNotFound, <<"extractor", 1>>, "extractor"))
  ELSE IF ValidateFails(status)
    THEN Append(errs, ConfigError(ErrInvalidConfig, name, role))
  ELSE errs
\* The check of one plugin: a failed factory Get appends an error that names
\* the source and the extractor role (whatever the plugin) and goes on to
\* the next plugin; a failed Validate appends one that names the plugin.
ValidatePlugin(errs, status, name, role) ==
  IF GetFails(status)
    THEN Append(errs, ConfigError(ErrNotFound, <<"extractor", 1>>, "extractor"))
  ELSE IF ValidateFails(status)
    THEN Append(errs, ConfigError(ErrInvalidConfig, name, role))
  ELSE errs

InitValidate ==
  /\ recipe \in [source : ValidateStatus,
                 processors : SeqsUpTo(ValidateStatus, 0, MaxProcs),
                 sinks : SeqsUpTo(ValidateStatus, 1, MaxSinks)]
  /\ NewAgent
  /\ RunEntered
  /\ rt = NotCalled
  /\ vl = [pc |-> "extractor", idx |-> 1, errs |-> <<>>]
  /\ rm = NotCalled

validateExtractor ==
  /\ vl.pc = "extractor"
  /\ vl' = [pc |-> "sinks", idx |-> 1,
            errs |-> ValidatePlugin(vl.errs, recipe.source, <<"extractor", 1>>, "extractor")]
  /\ UNCHANGED <<agentVars, runVars, rt, rm>>

validateSink ==
  /\ vl.pc = "sinks"
  /\ vl.idx <= nSinks
  /\ vl' = [vl EXCEPT
              !.errs = ValidatePlugin(@, recipe.sinks[vl.idx], <<"sink", vl.idx>>, "sink"),
              !.idx = @ + 1]
  /\ UNCHANGED <<agentVars, runVars, rt, rm>>

validateSinksDone ==
  /\ vl.pc = "sinks"
  /\ vl.idx > nSinks
  /\ vl' = [vl EXCEPT !.pc = "processors", !.idx = 1]
  /\ UNCHANGED <<agentVars, runVars, rt, rm>>

validateProcessor ==
  /\ vl.pc = "processors"
  /\ vl.idx <= nProcs
  /\ vl' = [vl EXCEPT
              !.errs = ValidatePlugin(@, recipe.processors[vl.idx],
                                      <<"processor", vl.idx>>, "processor"),
              !.idx = @ + 1]
  /\ UNCHANGED <<agentVars, runVars, rt, rm>>

validateReturn ==
  /\ vl.pc = "processors"
  /\ vl.idx > nProcs
  /\ vl' = [vl EXCEPT !.pc = "done"]
  /\ UNCHANGED <<agentVars, runVars, rt, rm>>

NextValidate ==
  \/ validateExtractor
  \/ validateSink
  \/ validateSinksDone
  \/ validateProcessor
  \/ validateReturn

SpecValidate == InitValidate /\ [][NextValidate]_vars

\* ---------------------------------------------------- Agent.RunMultiple
\* One call of RunMultiple(recipes). A recipe is known by its place in the
\* list (name), by what happens when it is run (kind) and by the number of
\* records its extractor emits (records). rm holds the caller's position,
\* the loop variables i and recipe, the goroutines with their copies
\* tempIndex and tempRecipe, the runs slice, the WaitGroup counter, the
\* Runs handed to the monitor and the slice returned.
RecipeKinds == {"ok", "setup", "extract", "panic"}
NoRecipe == [name |-> 0, kind |-> "none", records |-> 0]
\* The zero Run: an element of make([]Run, len(recipes)).
ZeroRun ==
  [Recipe |-> NoRecipe, Error |-> NoErr, Success |-> FALSE, RecordCount |-> 0,
   DurationInMs |-> 0]

\* What r.Run(rcp) returns: the recipe and the outcome of its kind (a
\* missing extractor, an error of Extract, a panic in Extract, or none of
\* these).
RunOf(rcp) ==
  LET err == CASE rcp.kind = "setup" ->
                    Wrap(Wrap(ErrNotFound, "could not find extractor"),
                         "failed to setup extractor")
               [] rcp.kind = "extract" -> ExtractorError("err", NoErr)
               [] rcp.kind = "panic" -> ExtractorError("panic", NoErr)
               [] OTHER -> NoErr
      r == [Recipe |-> rcp, Error |-> err, Success |-> FALSE,
            RecordCount |-> IF rcp.kind = "setup" THEN 0 ELSE rcp.records,
            DurationInMs |-> 0]
  IN [r EXCEPT !.Success = Success(r)]

\* Fault variants: the goroutine reads the loop variable, not its copy.
CapturedIndex_LoopVar(temp, loopVar) == loopVar
CapturedRecipe_LoopVar(temp, loopVar) == loopVar
\* What the goroutine's closure sees as index and as recipe: the copies
\* tempIndex and tempRecipe made in the iteration that started it.
CapturedIndex(temp, loopVar) == temp
CapturedRecipe(temp, loopVar) == temp

InitMulti ==
  /\ recipe = [source |-> "ok", processors |-> <<>>, sinks |-> <<"ok">>]
  /\ NewAgent
  /\ RunEntered
  /\ rt = NotCalled
  /\ vl = NotCalled
  /\ \E n \in 1..MaxRecipes :
       \E kinds \in [1..n -> RecipeKinds], recs \in [1..n -> {0, MaxRecords}] :
         rm = [pc |-> "loop",
               recipes |-> [j \in 1..n |-> [name |-> j, kind |-> kinds[j], records |-> recs[j]]],
               i |-> 0,
               recipe |-> NoRecipe,
               g |-> [j \in 1..n |-> [pc |-> "none", tempIndex |-> 0,
                                      tempRecipe |-> NoRecipe, run |-> ZeroRun]],
               runs |-> [j \in 1..n |-> ZeroRun],
               wg |-> 0,
               monitor |-> <<>>,
               ret |-> <<>>]

\* One iteration of the loop: wg.Add(1), the copies, go func().
rmSpawn ==
  /\ rm.pc = "loop"
  /\ LET i == rm.i + 1
     IN rm' = [rm EXCEPT
                 !.i = i,
                 !.recipe = rm.recipes[i],
                 !.wg = @ + 1,
                 !.g[i] = [pc |-> "run", tempIndex |-> i,
                           tempRecipe |-> rm.recipes[i], run |-> ZeroRun],
                 !.pc = IF i < Len(rm.recipes) THEN "loop" ELSE "wait"]
  /\ UNCHANGED <<agentVars, runVars, rt, vl>>

\* run := r.Run(tempRecipe), the monitor's RecordRun in it included.
rmRun(k) ==
  /\ k <= Len(rm.recipes)
  /\ rm.g[k].pc = "run"
  /\ LET r == RunOf(CapturedRecipe(rm.g[k].tempRecipe, rm.recipe))
     IN rm' = [rm EXCEPT
                 !.g[k].run = r,
                 !.g[k].pc = "store",
                 !.monitor = Append(@, [r EXCEPT !.DurationInMs = expectedDuration])]
  /\ UNCHANGED <<agentVars, runVars, rt, vl>>

\* runs[tempIndex] = run
rmStore(k) ==
  /\ k <= Len(rm.recipes)
  /\ rm.g[k].pc = "store"
  /\ rm' = [rm EXCEPT
              !.runs[CapturedIndex(rm.g[k].tempIndex, rm.i)] = rm.g[k].run,
              !.g[k].pc = "signal"]
  /\ UNCHANGED <<agentVars, runVars, rt, vl>>

\* wg.Done()
rmDone(k) ==
  /\ k <= Len(rm.recipes)
  /\ rm.g[k].pc = "signal"
  /\ rm' = [rm EXCEPT !.wg = @ - 1, !.g[k].pc = "done"]
  /\ UNCHANGED <<agentVars, runVars, rt, vl>>

\* wg.Wait() is passed once the counter is zero; return runs.
rmReturn ==
  /\ rm.pc = "wait"
  /\ rm.wg = 0
  /\ rm' = [rm EXCEPT !.ret = rm.runs, !.pc = "done"]
  /\ UNCHANGED <<agentVars, runVars, rt, vl>>

NextMulti ==
  \/ rmSpawn
  \/ \E k \in 1..MaxRecipes : rmRun(k)
  \/ \E k \in 1..MaxRecipes : rmStore(k)
  \/ \E k \in 1..MaxRecipes : rmDone(k)
  \/ rmReturn

SpecMulti == InitMulti /\ [][NextMulti]_vars

\* ------------------------------------------------- close, count, duration
\* How often x occurs in the sequence sq.
Count(sq, x) == Cardinality({i \in 1..Len(sq) : sq[i] = x})
\* The sinks of the recipe whose Init was called and succeeded.
InitialisedSinks == {onCloses[i] : i \in 1..Len(onCloses)}

\* C15: once Run has returned, sink.Close was called exactly once on every
\* sink that was initialised, whether the Run succeeded or failed, a Run
\* that failed in setup after the sink was initialised included; and a sink
\* is closed only after its subscriber has finished (all its batches were
\* delivered, or the stream aborted).
C15_CloseOncePerSink ==
  /\ Returned => \A k \in InitialisedSinks : Count(closeLog, k) = 1
  /\ \A k \in Sinks : Count(closeLog, k) > 0 => spc[k] = "done"

\* C16: the RecordCount of the returned Run is the number of records the
\* extractor emitted, whatever a processor or sink did with them later.
C16_CountsEmitted ==
  (Returned /\ epc \in {"idle", "exited"}) => retRun.RecordCount = Len(emitted)

\* C17: the DurationInMs of the returned Run is the value the timer's stop
\* function returned.
C17_DurationReturned ==
  Returned => retRun.DurationInMs = expectedDuration

\* ------------------------------------------------------ retrier claims
\* The number of leading calls on which the sink returns a RetryError.
LeadingRetries(outs) ==
  CHOOSE f \in 0..Len(outs) :
    /\ \A i \in 1..f : outs[i] = "retry"
    /\ f < Len(outs) => outs[f + 1] # "retry"

RetryReturned == rt.pc = "done"

\* The step-by-step retrier and the closed form the sink handler uses agree.
RetryAgrees ==
  RetryReturned =>
    retry(rt.outs, 1, RetrierMax(maxRetries)) = [err |-> rt.result, calls |-> rt.n]

C13_PermanentErrorImmediate ==
  LET f == LeadingRetries(rt.outs)
  IN /\ (RetryReturned /\ rt.outs[1] = "perm") =>
          /\ rt.n = 1
          /\ rt.notified = <<>>
          /\ rt.result = ErrSink
     /\ (RetryReturned /\ f < maxRetries /\ rt.outs[f + 1] = "perm") =>
          /\ rt.n = f + 1
          /\ Len(rt.notified) = f
          /\ rt.result = ErrSink

C13_Witness ==
  /\ RetryReturned
  /\ rt.outs[1] = "perm"
  /\ rt.n = 1
  /\ rt.notified = <<>>
  /\ rt.result = ErrSink

\* C14: when the attempts are used up, the error retry returns is the cause
\* inside the last RetryError, not the RetryError around it.
C14_ReturnsCause ==
  (RetryReturned /\ rt.n = maxRetries /\ rt.outs[rt.n] = "retry") =>
    /\ rt.result = ErrSink
    /\ ~IsRetryError(rt.result)

C14_Witness ==
  /\ RetryReturned
  /\ rt.n = maxRetries
  /\ rt.outs[rt.n] = "retry"
  /\ rt.result = ErrSink

\* ----------------------------------------------------- Validate claims
ValidateReturned == vl.pc = "done"
\* The plugins of the recipe with a given status.
PluginsWith(status) ==
  {i \in 1..Len(RecipePlugins) : RecipePlugins[i].status = status}

\* C20: Validate goes through the whole recipe: the list it returns has one
\* entry for every plugin name that is not registered and one for every
\* registered plugin whose Validate fails, and no other entry; so it is
\* empty exactly when every name resolves and every config is valid.
C20_ValidateCollectsAll ==
  ValidateReturned =>
    /\ Len(vl.errs) = Cardinality(PluginsWith("missing")) + Cardinality(PluginsWith("invalid"))
    /\ Cardinality({i \in 1..Len(vl.errs) : vl.errs[i].cause = ErrNotFound})
         = Cardinality(PluginsWith("missing"))
    /\ Cardinality({i \in 1..Len(vl.errs) : vl.errs[i].cause = ErrInvalidConfig})
         = Cardinality(PluginsWith("invalid"))
    /\ vl.errs = <<>> <=> PluginsWith("ok") = 1..Len(RecipePlugins)

C20_Witness ==
  /\ ValidateReturned
  /\ recipe.source = "invalid"
  /\ recipe.sinks = <<"missing", "ok">>
  /\ recipe.processors = <<"invalid", "missing">>
  /\ Len(vl.errs) = 4

\* -------------------------------------------------- RunMultiple claims
MultiReturned == rm.pc = "done"

\* Run as RunMultiple sees it agrees with Run step by step: a Run whose
\* only fault is of the recipe's kind returns what RunOf says.
RunOfAgrees ==
  LET kind == IF recipe.source = "missing" THEN "setup"
              ELSE IF faults = {"extract_err"} THEN "extract"
              ELSE IF faults = {"extract_panic"} THEN "panic"
              ELSE "ok"
      rcp == [name |-> 1, kind |-> kind, records |-> Len(emitted)]
  IN (/\ Returned
      /\ epc \in {"idle", "exited"}
      /\ faults \subseteq {"extract_err", "extract_panic"}
      /\ Cardinality(faults) <= 1
      /\ \A i \in 1..Len(RecipePlugins) :
            RecipePlugins[i].status \in {"ok", "rewrite"} \/ kind = "setup")
     => [retRun EXCEPT !.DurationInMs = 0]
          = [Error |-> RunOf(rcp).Error, Success |-> RunOf(rcp).Success,
             RecordCount |-> RunOf(rcp).RecordCount, DurationInMs |-> 0]

\* C18: RunMultiple returns only once every recipe's goroutine has finished
\* its Run and stored it, and the slice it returns is as long as the input
\* with the Run of recipes[i] at index i, however the goroutines interleave.
C18_RunMultipleInOrder ==
  MultiReturned =>
    /\ \A k \in 1..Len(rm.recipes) : rm.g[k].pc = "done"
    /\ Len(rm.ret) = Len(rm.recipes)
    /\ \A k \in 1..Len(rm.recipes) : rm.ret[k].Recipe = rm.recipes[k]

C18_Witness ==
  /\ MultiReturned
  /\ Len(rm.recipes) = 2
  /\ rm.monitor[1].Recipe = rm.recipes[2]
  /\ rm.ret[1].Recipe = rm.recipes[1]
  /\ rm.ret[2].Recipe = rm.recipes[2]

CeilDiv(m, k) == (m + k - 1) \div k

\* C21: a subscriber with batch size k that m records reach has its handler
\* called ceil(m/k) times; every call but the last gets exactly k records,
\* the last gets m mod k records when that is not zero and k otherwise, and
\* no call gets an empty batch. (m: the records that came out of the
\* middleware chain of a stream that was not aborted.)
C21_Batching ==
  \A k \in 1..nSubs :
    LET h == handled[k]
        m == Len(passed)
    IN /\ \A i \in 1..Len(h) :
            /\ h[i].n >= 1
            /\ h[i].n <= batchSize
            /\ i < Len(h) => h[i].n = batchSize
       /\ (spc[k] = "done" /\ sErr = NoErr) =>
            /\ Len(h) = CeilDiv(m, batchSize)
            /\ Len(delivered[k]) = m
            /\ m > 0 => h[Len(h)].n = (IF m % batchSize # 0 THEN m % batchSize
                                        ELSE batchSize)

C21_Witness ==
  /\ spc[1] = "done"
  /\ sErr = NoErr
  /\ batchSize = 3
  /\ Len(passed) = 4
  /\ handled[1] = <<[n |-> 3, ret |-> TRUE], [n |-> 1, ret |-> TRUE]>>

\* broadcast() has returned.
BroadcastReturned == pc \in {"finish", "deferred", "return", "done"} /\ epc # "idle"

\* C22: every on_close hook runs exactly once: none before every subscriber
\* has ended (so no handler call, and no Sink call in it, starts or is under
\* way once a hook has begun), each at most once and in the order of
\* registration, and all of them before broadcast() returns.
C22_HooksAfterDrain ==
  /\ closeLog # <<>> =>
       \A k \in 1..nSubs :
         /\ spc[k] = "done"
         /\ \A i \in 1..Len(handled[k]) : handled[k][i].ret
  /\ IsPrefix(closeLog, onCloses)
  /\ BroadcastReturned => closeLog = onCloses

C22_Witness ==
  /\ BroadcastReturned
  /\ closeLog = <<1, 2>>
  /\ Len(handled[1]) = MaxRecords
  /\ Len(handled[2]) = MaxRecords

\* C23: the handler calls of a subscriber do not overlap: every call but
\* the last has returned (its retries included), and the last is under way
\* exactly while the subscriber is in its handler.
C23_HandlerCallsSequential ==
  \A k \in Sinks :
    LET h == handled[k]
    IN /\ \A i \in 1..(Len(h) - 1) : h[i].ret
       /\ spc[k] = "handler" <=> (h # <<>> /\ ~h[Len(h)].ret)

C23_Witness ==
  \E k \in Sinks :
    /\ Len(handled[k]) = 2
    /\ handled[k][1].ret
    /\ ~handled[k][2].ret
    /\ spc[k] = "handler"

\* C24: closing the stream is idempotent: once closed it stays closed, a
\* close of a stream that is already closed (the extractor's deferred Close
\* after a fatal error, or a second fatal error) changes nothing of the
\* stream, the terminal error recorded first is never replaced, and the
\* hooks are not run again.
C24_CloseIdempotent ==
  [][/\ closed => closed'
     /\ sErr # NoErr => sErr' = sErr
     /\ (closed /\ epc = "closing" /\ epc' = "exited") =>
          UNCHANGED <<closed, sErr, pushChan, subsClosed, subVars, closeLog>>
     /\ Len(closeLog') <= Len(onCloses')
     /\ IsPrefix(closeLog, closeLog')]_vars

C24_Witness ==
  /\ Returned
  /\ epc = "exited"
  /\ stopOnSinkError
  /\ "process_err" \in faults
  /\ "sink_err" \in faults
  /\ sErr = Wrap(ErrProcess, "error running processor")
  /\ closeLog = onCloses

\* C25: the Run value is written only by the goroutine that called Run:
\* no step of the extractor goroutine (a step that moves epc) and no step
\* of a subscriber changes run.
C25_RunWrittenByCaller ==
  [][run' # run => (epc' = epc /\ spc' = spc)]_vars

\* C26: the records pushed by the extractor and not yet taken by the
\* dispatcher never exceed the capacity of the push channel, and the
\* records waiting for a subscriber never exceed that of its channel; a
\* push on a full channel waits.
C26_Backpressure ==
  /\ Len(pushChan) <= ChanCap
  /\ \A k \in Sinks : Len(inbox[k]) <= SubCap
  /\ (epc = "running" /\ ~closed /\ Len(pushChan) = ChanCap) => ~ENABLED emit

C26_Witness ==
  /\ epc = "running"
  /\ ~closed
  /\ Len(pushChan) = ChanCap
  /\ Len(emitted) < MaxRecords
  /\ ~ENABLED emit

\* C27: a panic of sink.Sink inside the retrier is recovered and handled as
\* a permanent error: Sink is not called again for the batch, retry returns
\* an error carrying the payload, the process goes on, and a Run in which a
\* sink panicked returns with the monitor invoked once; it fails with the
\* payload under stopOnSinkError and is not failed by the panic otherwise.
C27_SinkPanicRecovered ==
  /\ pc # "crashed"
  /\ \A outs \in PanickySinkBehaviours(maxRetries) :
       LET f == LeadingRetries(outs)
       IN (f < maxRetries /\ outs[f + 1] = "panic") =>
            retry(outs, 1, RetrierMax(maxRetries))
              = [err |-> Errorf(PanicPayload), calls |-> f + 1]
  /\ (Returned /\ "sink_panic" \in faults) =>
       /\ Len(monitorLog) = 1
       /\ closeLog = onCloses
       /\ stopOnSinkError => ~retRun.Success
       /\ (stopOnSinkError /\ faults = {"sink_panic"}) =>
            retRun.Error = Wrap(Errorf(PanicPayload), "failed to broadcast stream")
       /\ (~stopOnSinkError /\ faults = {"sink_panic"}) =>
            (retRun.Success /\ retRun.Error = NoErr)

C27_Witness ==
  /\ Returned
  /\ stopOnSinkError
  /\ faults = {"sink_panic"}
  /\ Len(monitorLog) = 1
  /\ Contains(retRun.Error, PanicPayload)

\* C28: an error of sink.Close does not change the outcome of the Run: the
\* hooks of the other sinks are still run, and when nothing else failed Run
\* returns success = true and a nil error.
C28_CloseErrorIgnored ==
  /\ (BroadcastReturned /\ "close_err" \in faults) => closeLog = onCloses
  /\ (Returned /\ faults = {"close_err"}) =>
       (retRun.Success /\ retRun.Error = NoErr)

C28_Witness ==
  /\ Returned
  /\ faults = {"close_err"}
  /\ closeLog = <<1, 2>>
  /\ retRun.Success

\* What the processors of the recipe, from processor p on and in recipe
\* order, make of record r when none of them fails.
RECURSIVE ThroughProcessors(_, _)
ThroughProcessors(r, p) ==
  IF p > nProcs THEN r
  ELSE ThroughProcessors(Process(recipe.processors[p], r, p), p + 1)

\* C29: the middlewares are applied to each record in the order of
\* insertion (the processors in recipe order, each on the output of the one
\* before); when a middleware fails the chain stops for that record (it
\* does not come out of the chain, and no later record is taken), and the
\* error is the stream's terminal error, which broadcast() returns.
C29_ChainInOrder ==
  /\ \A i \in 1..Len(passed) : passed[i] = ThroughProcessors(emitted[i], 1)
  /\ failedAt # 0 =>
       /\ Len(passed) = failedAt - 1
       /\ sErr \in {Wrap(ErrProcess, "error running processor"), Errorf(PanicPayload)}
  /\ (Returned /\ failedAt # 0 /\ ~ExtractorFailed) =>
       retRun.Error = Wrap(sErr, "failed to broadcast stream")

C29_Witness ==
  /\ Returned
  /\ recipe.processors = <<"rewrite", "rewrite">>
  /\ passed = <<112>>
  /\ failedAt = 2
  /\ "process_err" \in faults
  /\ ~ExtractorFailed

C31_ProcessorsSerial ==
  [][(passed' # passed \/ failedAt' # failedAt \/ recordCount' # recordCount) =>
       /\ pc = "recv"
       /\ pushChan # <<>>
       /\ pushChan' = Tail(pushChan)
       /\ Head(pushChan) = emitted[Len(passed) + 1]
       /\ \/ passed' = Append(passed, ThroughProcessors(Head(pushChan), 1))
          \/ passed' = passed /\ failedAt' = Len(passed) + 1]_vars

C31_Witness ==
  /\ recipe.processors = <<"rewrite", "rewrite">>
  /\ passed = <<112, 212>>
  /\ failedAt = 0

\* C32: with stop_on_sink_error unset, a sink whose write of a batch failed
\* (retries included) goes on receiving: the failed batch is skipped, the
\* subscriber stays in its delivery loop until the stream is closed, and it
\* is handed every later record that came out of the chain, in order. The
\* sink looked at is one whose every write fails, so that every batch it
\* receives comes after a failed one.
C32_FailedBatchSkipped ==
  ~stopOnSinkError =>
    \A k \in 1..nSubs :
      recipe.sinks[onCloses[k]] = "fails" =>
        /\ sErr \notin {ErrSink, NewRetryError(ErrSink)}
        /\ IsPrefix(delivered[k], passed)
        /\ Len(handled[k]) = Len(delivered[k])
        /\ (\E i \in 1..Len(handled[k]) : handled[k][i].ret) => "sink_err" \in faults
        /\ spc[k] = "done" => subsClosed /\ inbox[k] = <<>>
        /\ BroadcastReturned => delivered[k] = passed
        /\ (BroadcastReturned /\ ~ProcessorFailed) => Len(delivered[k]) = Len(emitted)

C32_Witness ==
  /\ Returned
  /\ ~stopOnSinkError
  /\ recipe.sinks = <<"fails", "ok">>
  /\ "sink_err" \in faults
  /\ handled[1] = <<[n |-> 1, ret |-> TRUE], [n |-> 1, ret |-> TRUE]>>
  /\ delivered[1] = <<1, 2>>
  /\ retRun.Success

RECURSIVE Pow2(_)
Pow2(n) == IF n = 0 THEN 1 ELSE 2 * Pow2(n - 1)

\* C33: in the retrier, on_retry_notify is called on the j-th retry of one
\* operation with initial_interval * 2^(j-1); it is called once per retry
\* (one call less than attempts made), so never after the last attempt,
\* whether that one succeeded, failed for good or used up the budget; and
\* every call of retry, the one for a later batch included, starts again
\* from initial_interval.
C33_BackoffDoubles ==
  /\ \A j \in 1..Len(rt.notified) : rt.notified[j] = rt.initial * Pow2(j - 1)
  /\ rt.interval = rt.initial * Pow2(Len(rt.notified))
  /\ rt.pc = "call" => Len(rt.notified) = rt.n
  /\ rt.pc \in {"notify", "done"} => Len(rt.notified) = rt.n - 1
  /\ rt.n <= RetrierMax(maxRetries)
  /\ rt.n = 0 => rt.interval = rt.initial /\ rt.notified = <<>>

C33_Witness ==
  /\ rt.pc = "done"
  /\ rt.nth = 2
  /\ rt.n = 4
  /\ rt.notified = <<5, 10, 20>>
  /\ rt.result = NoErr

\* C34: Run always terminates. When every goroutine is scheduled and every
\* plugin call comes back, Run eventually returns to its caller, whatever
\* fails and whenever: a plugin in setup, a processor while the extractor
\* is still emitting, the extractor before it emitted anything, a sink
\* under stop_on_sink_error.
C34_RunTerminates == <>(pc = "done")

\* Run has returned on a processor's failure while the extractor was still
\* inside Extract.
C34_Witness ==
  /\ Returned
  /\ ProcessorFailed
  /\ epc = "running"
  /\ Len(emitted) < MaxRecords

\* C36: the Run handed to monitor.RecordRun carries the record count, the
\* success flag and the error of the Run returned to the caller, and its
\* DurationInMs is what the timer returned, on every path (the recipe is
\* assigned once on entry and is the same in both).
C36_MonitorSeesReturnedRun ==
  Returned =>
    /\ Len(monitorLog) = 1
    /\ monitorLog[1].DurationInMs = expectedDuration
    /\ monitorLog[1].RecordCount = retRun.RecordCount
    /\ monitorLog[1].Success = retRun.Success
    /\ monitorLog[1].Error = retRun.Error

\* The status of the plugin entry of the recipe known by name = <<role, idx>>.
StatusOf(name) ==
  CASE name[1] = "extractor" -> recipe.source
    [] name[1] = "sink" -> recipe.sinks[name[2]]
    [] name[1] = "processor" -> recipe.processors[name[2]]

\* C37: every entry of the list Validate returns names the plugin entry
\* that caused it, by that plugin's own name and role: the plugin it names
\* is one that is not registered or whose config is invalid, the cause is
\* that plugin's, and the plugins named are exactly the failing ones.
C37_EntriesNameTheirPlugin ==
  /\ \A i \in 1..Len(vl.errs) :
       LET e == vl.errs[i]
       IN /\ e.role = e.name[1]
          /\ StatusOf(e.name) \in {"missing", "invalid"}
          /\ e.cause = IF StatusOf(e.name) = "missing" THEN ErrNotFound
                       ELSE ErrInvalidConfig
  /\ ValidateReturned =>
       {vl.errs[i].name : i \in 1..Len(vl.errs)}
         = {<<RecipePlugins[i].role, RecipePlugins[i].idx>> :
              i \in PluginsWith("missing") \cup PluginsWith("invalid")}

====
